---- MODULE Spec2Model ----
(***************************************************************************)
(* Model of the ESB smart-meter integration:                               *)
(*   sensor.py      ESBDataUpdateCoordinator (_async_update_data and       *)
(*                  _async_import_statistics)                              *)
(*   esb_api.py     ESBSmartMeter.get_usage_data                           *)
(*   config_flow.py ESBConfigFlow.async_step_user                          *)
(*                                                                         *)
(* Usage values are floats in the program; the model uses small integers,  *)
(* so sums are exact.  A reading's date string 'DD-MM-YYYY HH:MM' is the   *)
(* tuple <<hour, minute>>, where hour counts the wall-clock hours of the   *)
(* modelled period; <<>> is the empty string.                              *)
(***************************************************************************)
EXTENDS Integers, Sequences, FiniteSets, TLC

\* ------------------------------------------------------------- bounds
\* wall-clock hours of the modelled period: 0 .. NumHours-1
NumHours == 4
\* readings of the first fetch: at most FirstLen, in any order
FirstLen == 2
\* readings the server ever holds
MaxLen == 3

\* The configured time zone has one spring-forward transition in the
\* period: wall-clock hour GapHour does not exist, the clocks go from
\* GapHour-1:59 to GapHour+1:00.
GapHour == 1

VARIABLES
    data,             \* the 'readings' list of the latest fetch
    store,            \* the recorder's statistics of the meter: start -> [sum, state]
    statistics,       \* the list the latest import built
    hourly_readings,  \* the buckets the latest import built
    parse_errors,     \* parse_errors of the latest import
    imported_len,     \* Len(data) when the latest import ran, 0 before the first
    store_called,     \* the latest import called async_add_external_statistics
    restarted,        \* some import found a last statistic with sum 0 and
                      \* treated it as no previous data
    debug_use_cache,  \* DEBUG_USE_CACHE
    cache_file,       \* the content of CACHE_FILE
    cache_before,     \* cache_file when the running update started
    pc,               \* where the running update is
    req,              \* the request get_usage_data is at: 1 .. 8
    issued,           \* the requests issued in this run, in order
    received,         \* the requests whose response was received in this run
    extracted,        \* the values extracted from the responses of this run
    login_page,       \* response 3 begins with '<!DOCTYPE html PUBLIC'
    payload_head,     \* whether the body of response 8 begins with 'MPRN'
    fetch_result,     \* how get_usage_data ended
    update_result,    \* how _async_update_data ended
    import_invoked,   \* the running update called _async_import_statistics
    import_raised,    \* and that call raised
    entries,          \* the config entries of the domain, in creation order
    user_input,       \* the argument of the latest async_step_user: <<>> is None
    flow_result       \* what the latest async_step_user returned

importVars == <<store, statistics, hourly_readings, parse_errors,
                imported_len, store_called, restarted>>
fetchVars == <<debug_use_cache, cache_file, cache_before, pc, req, issued,
               received, extracted, login_page, payload_head, fetch_result,
               update_result, import_invoked, import_raised>>
configVars == <<entries, user_input, flow_result>>
vars == <<data, importVars, fetchVars, configVars>>

\* ------------------------------------------------------------- readings
EmptyDate == <<>>
\* a date string that does not match the format: minute 60
BadDate == <<0, 60>>
Minutes == {0, 30}
Timestamps == (0 .. (NumHours - 1)) \X Minutes
Dates == Timestamps \cup {EmptyDate, BadDate}
\* usage of one reading, in kWh: none or one unit
Usages == {0, 1}
Readings == [date : Dates, usage : Usages]

EmptyFn == [k \in {} |-> 0]

\* datetime.strptime(s, "%d-%m-%Y %H:%M") succeeds
StrptimeOk(s) == Len(s) = 2 /\ s[1] \in Nat /\ s[2] \in 0 .. 59

\* naive_dt.replace(minute=0, second=0, microsecond=0)
HourOf(naive_dt) == <<naive_dt[1], 0>>

\* TIMEZONE.localize(hour_dt), as the hour of the instant.  Before the
\* transition the offset is the standard one; after it the clocks are one
\* hour ahead.  pytz localizes a wall-clock time inside the gap with the
\* standard offset (is_dst=False), so it is the same instant as one hour
\* later on the clock.
Localize(hour_dt) ==
    IF hour_dt[1] <= GapHour THEN hour_dt[1] ELSE hour_dt[1] - 1

\* the key of the bucket a reading with a parseable date goes to
ReadingTime(reading) == Localize(HourOf(reading.date))

\* variant of BucketStep: a reading replaces the bucket of its hour
BucketStepOverwrite(acc, reading) ==
    IF Len(reading.date) = 0
      THEN [acc EXCEPT !.parse_errors = @ + 1]
    ELSE IF ~StrptimeOk(reading.date)
      THEN [acc EXCEPT !.parse_errors = @ + 1]
    ELSE [acc EXCEPT !.hourly_readings =
             [k \in DOMAIN @ \cup {ReadingTime(reading)} |->
                 IF k = ReadingTime(reading) THEN reading.usage ELSE @[k]]]

\* one pass of the loop over data["readings"]
BucketStep(acc, reading) ==
    IF Len(reading.date) = 0
      THEN [acc EXCEPT !.parse_errors = @ + 1]
    ELSE IF ~StrptimeOk(reading.date)
      THEN [acc EXCEPT !.parse_errors = @ + 1]
    ELSE LET reading_time == ReadingTime(reading)
             h == acc.hourly_readings
         IN  IF reading_time \in DOMAIN h
               THEN [acc EXCEPT !.hourly_readings =
                        [h EXCEPT ![reading_time] = @ + reading.usage]]
               ELSE [acc EXCEPT !.hourly_readings =
                        h @@ (reading_time :> reading.usage)]

RECURSIVE BucketLoop(_, _, _)
BucketLoop(readings, i, acc) ==
    IF i > Len(readings) THEN acc
    ELSE BucketLoop(readings, i + 1, BucketStep(acc, readings[i]))

\* hourly_readings and parse_errors after the loop
BucketReadings(readings) ==
    BucketLoop(readings, 1, [hourly_readings |-> EmptyFn, parse_errors |-> 0])

\* get_last_statistics(hass, 1, statistic_id, ...): the stored statistic with
\* the latest start, <<>> when the meter has none
GetLastStatistics(st) ==
    IF DOMAIN st = {} THEN <<>>
    ELSE LET start == CHOOSE k \in DOMAIN st : \A j \in DOMAIN st : j <= k
         IN  <<[start |-> start, sum |-> st[start].sum, state |-> st[start].state]>>

\* last_sum after the read of the last statistic
LastSum(last_stats) ==
    IF Len(last_stats) > 0 THEN last_stats[1].sum ELSE 0

\* variant of LastTime: the test of the sum is inverted
LastTimeKeptOnZeroSum(last_stats) ==
    IF Len(last_stats) > 0
      THEN IF LastSum(last_stats) # 0 THEN <<>> ELSE <<last_stats[1].start>>
      ELSE <<>>

\* last_time after the read of the last statistic: <<>> is None
LastTime(last_stats) ==
    IF Len(last_stats) > 0
      THEN IF LastSum(last_stats) = 0 THEN <<>> ELSE <<last_stats[1].start>>
      ELSE <<>>

\* sorted(hourly_readings.keys())
RECURSIVE Sorted(_)
Sorted(keys) ==
    IF keys = {} THEN <<>>
    ELSE LET first == CHOOSE k \in keys : \A j \in keys : k <= j
         IN  <<first>> \o Sorted(keys \ {first})

\* variant of AlreadyHave: < for <=
AlreadyHaveBefore(last_time, reading_time) ==
    Len(last_time) > 0 /\ reading_time < last_time[1]

\* "if last_time and reading_time <= last_time"
AlreadyHave(last_time, reading_time) ==
    Len(last_time) > 0 /\ reading_time <= last_time[1]

\* one pass of the loop over the sorted keys
ConvertStep(acc, hourly, last_time, reading_time) ==
    IF AlreadyHave(last_time, reading_time)
      THEN acc
      ELSE LET usage == hourly[reading_time]
               cumulative_sum == acc.cumulative_sum + usage
           IN  [cumulative_sum |-> cumulative_sum,
                statistics |-> Append(acc.statistics,
                    [start |-> reading_time, sum |-> cumulative_sum, state |-> usage])]

RECURSIVE ConvertLoop(_, _, _, _, _)
ConvertLoop(keys, i, hourly, last_time, acc) ==
    IF i > Len(keys) THEN acc
    ELSE ConvertLoop(keys, i + 1, hourly, last_time,
                     ConvertStep(acc, hourly, last_time, keys[i]))

\* variant of InitialSum: the sum starts from 0
InitialSumZero(last_sum) == 0

\* cumulative_sum before the loop
InitialSum(last_sum) == last_sum

\* the statistics list built from the buckets
ConvertToStatistics(hourly, last_time, last_sum) ==
    ConvertLoop(Sorted(DOMAIN hourly), 1, hourly, last_time,
                [cumulative_sum |-> InitialSum(last_sum), statistics |-> <<>>]).statistics

\* async_add_external_statistics against a store that keeps one record per
\* start: a statistic replaces the stored record of its start
AddExternalStatistics(st, stats) ==
    LET starts == {stats[i].start : i \in 1 .. Len(stats)}
        rec(k) == LET i == CHOOSE j \in 1 .. Len(stats) :
                                /\ stats[j].start = k
                                /\ \A l \in (j + 1) .. Len(stats) : stats[l].start # k
                  IN  [sum |-> stats[i].sum, state |-> stats[i].state]
    IN  [k \in DOMAIN st \cup starts |-> IF k \in starts THEN rec(k) ELSE st[k]]

\* ------------------------------------------------------------- actions
\* minutes since the start of the period of a parseable date string
ClockMinutes(date) == date[1] * 60 + date[2]

\* a reading the server adds to what it served before: its time is after
\* every reading served so far
Newer(reading) ==
    StrptimeOk(reading.date) =>
        \A i \in 1 .. Len(data) :
            StrptimeOk(data[i].date) =>
                ClockMinutes(data[i].date) < ClockMinutes(reading.date)

\* the body of _async_import_statistics(data) when nothing raises
ImportBody(readings) ==
    LET last_stats == GetLastStatistics(store)
        last_sum == LastSum(last_stats)
        last_time == LastTime(last_stats)
        buckets == BucketReadings(readings)
        stats == ConvertToStatistics(buckets.hourly_readings, last_time, last_sum)
    IN  /\ hourly_readings' = buckets.hourly_readings
        /\ parse_errors' = buckets.parse_errors
        /\ statistics' = stats
        /\ store_called' = (Len(stats) > 0)
        /\ store' = IF Len(stats) > 0
                      THEN AddExternalStatistics(store, stats)
                      ELSE store
        /\ restarted' = (restarted \/ (Len(last_stats) > 0 /\ last_sum = 0))
        /\ imported_len' = Len(readings)

\* the next fetch returns all readings of the previous one and a newer one
Fetch ==
    /\ Len(data) < MaxLen
    /\ \E reading \in Readings :
          /\ Newer(reading)
          /\ data' = Append(data, reading)
    /\ UNCHANGED <<importVars, fetchVars, configVars>>

\* _async_import_statistics(data), called with a non-empty readings list
ImportStatistics ==
    /\ Len(data) > 0
    /\ ImportBody(data)
    /\ UNCHANGED <<data, fetchVars, configVars>>

\* ------------------------------------------------------------- initial states
NoCache == [kind |-> "absent", readings |-> <<>>]

ImportInit ==
    /\ store = EmptyFn
    /\ statistics = <<>>
    /\ hourly_readings = EmptyFn
    /\ parse_errors = 0
    /\ imported_len = 0
    /\ store_called = FALSE
    /\ restarted = FALSE

FetchIdle ==
    /\ cache_before = cache_file
    /\ pc = "idle"
    /\ req = 0
    /\ issued = <<>>
    /\ received = {}
    /\ extracted = {}
    /\ login_page = "none"
    /\ payload_head = "none"
    /\ fetch_result = "none"
    /\ update_result = "none"
    /\ import_invoked = FALSE
    /\ import_raised = FALSE

ConfigInit ==
    /\ entries = <<>>
    /\ user_input = <<>>
    /\ flow_result = "none"

\* the first fetch: at most FirstLen readings in any order
FirstFetches == UNION {[1 .. n -> Readings] : n \in 0 .. FirstLen}

Init ==
    /\ data \in FirstFetches
    /\ ImportInit
    /\ debug_use_cache = FALSE
    /\ cache_file = NoCache
    /\ FetchIdle
    /\ ConfigInit

Next == Fetch \/ ImportStatistics

\* the imports of a growing list of readings
Spec == Init /\ [][Next]_vars

\* ------------------------------------------------------------- get_usage_data
\* rows of the CSV file per download
MaxRows == 2

\* a row of the CSV file: its 'Read Value' is a number, is no number
\* (float raises ValueError), or is missing because the row is short
\* (DictReader gives None and float raises TypeError)
CsvRows ==
    {[kind |-> "ok", date |-> <<0, 0>>, usage |-> 1],
     [kind |-> "ok", date |-> <<2, 30>>, usage |-> 1],
     [kind |-> "bad_value", date |-> <<0, 30>>, usage |-> 0],
     [kind |-> "short", date |-> <<>>, usage |-> 0]}

\* the body of response 8: whether it begins with 'MPRN', and its rows
CsvFiles ==
    [head_ok : BOOLEAN, rows : UNION {[1 .. n -> CsvRows] : n \in 0 .. MaxRows}]

\* what the cache file can hold when the program starts
InitialCaches ==
    {NoCache,
     [kind |-> "corrupt", readings |-> <<>>],
     [kind |-> "no_readings", readings |-> <<>>],
     [kind |-> "valid", readings |-> <<>>],
     [kind |-> "valid", readings |-> <<[date |-> <<0, 0>>, usage |-> 1]>>]}

\* the loop over the rows: a row whose value is no number is skipped
RECURSIVE RowsToReadings(_, _)
RowsToReadings(rows, i) ==
    IF i > Len(rows) THEN <<>>
    ELSE IF rows[i].kind = "ok"
      THEN <<[date |-> rows[i].date, usage |-> rows[i].usage]>>
               \o RowsToReadings(rows, i + 1)
      ELSE RowsToReadings(rows, i + 1)

\* the exception handlers of get_usage_data: close the session and raise
Raise ==
    /\ fetch_result' = "raised"
    /\ pc' = "fetch_done"
    /\ UNCHANGED <<req, data, cache_file>>

\* sensor.py _async_update_data: the coordinator calls get_usage_data
UpdateStart ==
    /\ pc = "idle"
    /\ pc' = "cache_check"
    /\ cache_before' = cache_file
    /\ req' = 0
    /\ issued' = <<>>
    /\ received' = {}
    /\ extracted' = {}
    /\ login_page' = "none"
    /\ payload_head' = "none"
    /\ fetch_result' = "none"
    /\ update_result' = "none"
    /\ import_invoked' = FALSE
    /\ import_raised' = FALSE
    /\ UNCHANGED <<data, importVars, debug_use_cache, cache_file, configVars>>

\* DEBUG_USE_CACHE and the cache file exists and loads: return it
UseCache ==
    /\ pc = "cache_check"
    /\ debug_use_cache
    /\ cache_file.kind \in {"valid", "no_readings"}
    /\ data' = cache_file.readings
    /\ fetch_result' = "returned"
    /\ pc' = "fetch_done"
    /\ UNCHANGED <<importVars, debug_use_cache, cache_file, cache_before, req,
                   issued, received, extracted, login_page, payload_head,
                   update_result, import_invoked, import_raised, configVars>>

\* no cache to use, or it fails to load: fetch fresh data
FetchFresh ==
    /\ pc = "cache_check"
    /\ ~(debug_use_cache /\ cache_file.kind \in {"valid", "no_readings"})
    /\ pc' = "send"
    /\ req' = 1
    /\ UNCHANGED <<data, importVars, debug_use_cache, cache_file, cache_before,
                   issued, received, extracted, login_page, payload_head,
                   fetch_result, update_result, import_invoked, import_raised,
                   configVars>>

\* session.get / session.post of REQUEST req
Send ==
    /\ pc = "send"
    /\ issued' = Append(issued, req)
    /\ pc' = "wait"
    /\ UNCHANGED <<data, importVars, debug_use_cache, cache_file, cache_before,
                   req, received, extracted, login_page, payload_head, fetch_result,
                   update_result, import_invoked, import_raised, configVars>>

\* the request times out or fails
RequestFails ==
    /\ pc = "wait"
    /\ Raise
    /\ UNCHANGED <<importVars, debug_use_cache, cache_before, issued, received,
                   extracted, login_page, payload_head, update_result,
                   import_invoked, import_raised, configVars>>

\* response 1: the SETTINGS object gives csrf and transId
Recv1 ==
    /\ pc = "wait" /\ req = 1
    /\ received' = received \cup {1}
    /\ \E settings_ok \in BOOLEAN :
          IF settings_ok
            THEN /\ extracted' = extracted \cup {"csrf", "transId"}
                 /\ pc' = "send" /\ req' = 2
                 /\ UNCHANGED <<fetch_result, data, cache_file>>
            ELSE Raise /\ UNCHANGED extracted
    /\ UNCHANGED <<importVars, debug_use_cache, cache_before, issued,
                   login_page, payload_head, update_result, import_invoked,
                   import_raised, configVars>>

\* response 2: nothing of it is checked
Recv2 ==
    /\ pc = "wait" /\ req = 2
    /\ received' = received \cup {2}
    /\ pc' = "send" /\ req' = 3
    /\ UNCHANGED <<data, importVars, debug_use_cache, cache_file, cache_before,
                   issued, extracted, login_page, payload_head, fetch_result,
                   update_result, import_invoked, import_raised, configVars>>

\* variant of Recv3: no test of the head of the response, no test of the form
Recv3NoGate ==
    /\ pc = "wait" /\ req = 3
    /\ received' = received \cup {3}
    /\ \E head_ok \in BOOLEAN :
          /\ login_page' = IF head_ok THEN "ok" ELSE "bad"
          /\ extracted' = extracted \cup {"action", "state", "client_info", "code"}
          /\ pc' = "send" /\ req' = 4
          /\ UNCHANGED <<fetch_result, data, cache_file>>
    /\ UNCHANGED <<importVars, debug_use_cache, cache_before, issued, payload_head,
                   update_result, import_invoked, import_raised, configVars>>

\* response 3: the login gate, then the form with id 'auto' gives the
\* action, state, client_info and code
Recv3 ==
    /\ pc = "wait" /\ req = 3
    /\ received' = received \cup {3}
    /\ \E head_ok, form_ok \in BOOLEAN :
          /\ login_page' = IF head_ok THEN "ok" ELSE "bad"
          /\ IF head_ok /\ form_ok
               THEN /\ extracted' =
                          extracted \cup {"action", "state", "client_info", "code"}
                    /\ pc' = "send" /\ req' = 4
                    /\ UNCHANGED <<fetch_result, data, cache_file>>
               ELSE Raise /\ UNCHANGED extracted
    /\ UNCHANGED <<importVars, debug_use_cache, cache_before, issued, payload_head,
                   update_result, import_invoked, import_raised, configVars>>

\* responses 4, 5 and 6: cookies only
Recv456 ==
    /\ pc = "wait" /\ req \in {4, 5, 6}
    /\ received' = received \cup {req}
    /\ pc' = "send" /\ req' = req + 1
    /\ UNCHANGED <<data, importVars, debug_use_cache, cache_file, cache_before,
                   issued, extracted, login_page, payload_head, fetch_result,
                   update_result, import_invoked, import_raised, configVars>>

\* variant of Recv7: request 8 is issued also without a token
Recv7TokenOptional ==
    /\ pc = "wait" /\ req = 7
    /\ received' = received \cup {7}
    /\ \E token_ok \in BOOLEAN :
          /\ extracted' = IF token_ok THEN extracted \cup {"token"} ELSE extracted
          /\ pc' = "send" /\ req' = 8
          /\ UNCHANGED <<fetch_result, data, cache_file>>
    /\ UNCHANGED <<importVars, debug_use_cache, cache_before, issued,
                   login_page, payload_head, update_result, import_invoked,
                   import_raised, configVars>>

\* response 7: its JSON gives the download token
Recv7 ==
    /\ pc = "wait" /\ req = 7
    /\ received' = received \cup {7}
    /\ \E token_ok \in BOOLEAN :
          IF token_ok
            THEN /\ extracted' = extracted \cup {"token"}
                 /\ pc' = "send" /\ req' = 8
                 /\ UNCHANGED <<fetch_result, data, cache_file>>
            ELSE Raise /\ UNCHANGED extracted
    /\ UNCHANGED <<importVars, debug_use_cache, cache_before, issued,
                   login_page, payload_head, update_result, import_invoked,
                   import_raised, configVars>>

\* response 8: the CSV file is checked, parsed, cached and returned
Recv8 ==
    /\ pc = "wait" /\ req = 8
    /\ received' = received \cup {8}
    /\ \E csv_file \in CsvFiles :
          /\ payload_head' = IF csv_file.head_ok THEN "MPRN" ELSE "other"
          /\ IF ~csv_file.head_ok
               THEN Raise
             ELSE IF \E i \in 1 .. Len(csv_file.rows) : csv_file.rows[i].kind = "short"
               THEN Raise
             ELSE /\ data' = RowsToReadings(csv_file.rows, 1)
                  /\ \E write_ok \in BOOLEAN :
                        cache_file' =
                            IF ~debug_use_cache /\ write_ok
                              THEN [kind |-> "valid", readings |-> data']
                              ELSE cache_file
                  /\ fetch_result' = "returned"
                  /\ pc' = "fetch_done"
                  /\ UNCHANGED req
    /\ UNCHANGED <<importVars, debug_use_cache, cache_before, issued, extracted,
                   login_page, update_result, import_invoked, import_raised,
                   configVars>>

\* ------------------------------------------------------------- _async_update_data
\* get_usage_data raised: the update ends with UpdateFailed
UpdateFails ==
    /\ pc = "fetch_done" /\ fetch_result = "raised"
    /\ update_result' = "failed"
    /\ pc' = "idle"
    /\ UNCHANGED <<data, importVars, debug_use_cache, cache_file, cache_before,
                   req, issued, received, extracted, login_page, payload_head,
                   fetch_result, import_invoked, import_raised, configVars>>

\* the data has readings: _async_import_statistics is called
CallImport ==
    /\ pc = "fetch_done" /\ fetch_result = "returned"
    /\ Len(data) > 0
    /\ import_invoked' = TRUE
    /\ pc' = "import"
    /\ UNCHANGED <<data, importVars, debug_use_cache, cache_file, cache_before,
                   req, issued, received, extracted, login_page, payload_head,
                   fetch_result, update_result, import_raised, configVars>>

\* the data has no readings: it is returned as it is
NoReadings ==
    /\ pc = "fetch_done" /\ fetch_result = "returned"
    /\ Len(data) = 0
    /\ update_result' = "returned"
    /\ pc' = "idle"
    /\ UNCHANGED <<data, importVars, debug_use_cache, cache_file, cache_before,
                   req, issued, received, extracted, login_page, payload_head,
                   fetch_result, import_invoked, import_raised, configVars>>

\* the import ends and the data is returned
ImportReturns ==
    /\ pc = "import"
    /\ ImportBody(data)
    /\ update_result' = "returned"
    /\ pc' = "idle"
    /\ UNCHANGED <<data, debug_use_cache, cache_file, cache_before, req, issued,
                   received, extracted, login_page, payload_head, fetch_result,
                   import_invoked, import_raised, configVars>>

\* variant of ImportRaises: the exception of the import ends the update
ImportRaisesUpdateFails ==
    /\ pc = "import"
    /\ import_raised' = TRUE
    /\ update_result' = "failed"
    /\ pc' = "idle"
    /\ UNCHANGED <<data, importVars, debug_use_cache, cache_file, cache_before,
                   req, issued, received, extracted, login_page, payload_head,
                   fetch_result, import_invoked, configVars>>

\* the recorder fails under the import: the import logs and raises, the
\* update logs and returns the data
ImportRaises ==
    /\ pc = "import"
    /\ import_raised' = TRUE
    /\ update_result' = "returned"
    /\ pc' = "idle"
    /\ UNCHANGED <<data, importVars, debug_use_cache, cache_file, cache_before,
                   req, issued, received, extracted, login_page, payload_head,
                   fetch_result, import_invoked, configVars>>

UpdateInit ==
    /\ data = <<>>
    /\ ImportInit
    /\ debug_use_cache \in BOOLEAN
    /\ cache_file \in InitialCaches
    /\ FetchIdle
    /\ ConfigInit

UpdateNext ==
    \/ UpdateStart
    \/ UseCache
    \/ FetchFresh
    \/ Send
    \/ RequestFails
    \/ Recv1
    \/ Recv2
    \/ Recv3
    \/ Recv456
    \/ Recv7
    \/ Recv8
    \/ UpdateFails
    \/ CallImport
    \/ NoReadings
    \/ ImportReturns
    \/ ImportRaises

\* the updates of the coordinator, one after the other
SpecUpdate == UpdateInit /\ [][UpdateNext]_vars

\* ------------------------------------------------------------- config flow
Mprns == {"10000000001", "10000000002", "10000000003"}
Emails == {"a@example.org", "b@example.org"}
Passwords == {"pw1", "pw2"}
\* what the form's schema lets through
UserInputs == [mprn : Mprns, email : Emails, password : Passwords]

\* variant of UniqueIdConfigured: no entry is looked up
UniqueIdNeverConfigured(unique_id) == FALSE

\* _abort_if_unique_id_configured: an entry of the domain has the unique id
UniqueIdConfigured(unique_id) ==
    \E i \in 1 .. Len(entries) : entries[i].unique_id = unique_id

\* async_step_user(None): show the form
StepUserShowForm ==
    /\ user_input' = <<>>
    /\ flow_result' = "form"
    /\ UNCHANGED <<entries, data, importVars, fetchVars>>

\* async_step_user(user_input): abort when the MPRN is configured, create
\* the entry otherwise
StepUserSubmit ==
    /\ \E input \in UserInputs :
          /\ user_input' = <<input>>
          /\ IF UniqueIdConfigured(input.mprn)
               THEN /\ flow_result' = "abort"
                    /\ UNCHANGED entries
               ELSE /\ flow_result' = "create_entry"
                    /\ entries' = Append(entries,
                          [unique_id |-> input.mprn, data |-> input])
    /\ UNCHANGED <<data, importVars, fetchVars>>

ConfigSpecInit ==
    /\ data = <<>>
    /\ ImportInit
    /\ debug_use_cache = FALSE
    /\ cache_file = NoCache
    /\ FetchIdle
    /\ ConfigInit

ConfigNext == StepUserShowForm \/ StepUserSubmit

\* the submissions of the config flow, one after the other
SpecConfig == ConfigSpecInit /\ [][ConfigNext]_vars

\* ------------------------------------------------------------- claims: import
\* the readings the latest import was given
ImportedReadings == SubSeq(data, 1, imported_len)

\* the positions of the readings whose date parses
Parseable(readings) ==
    {i \in 1 .. Len(readings) :
        Len(readings[i].date) > 0 /\ StrptimeOk(readings[i].date)}

RECURSIVE SumUsage(_, _)
SumUsage(readings, indices) ==
    IF indices = {} THEN 0
    ELSE LET i == CHOOSE j \in indices : TRUE
         IN  readings[i].usage + SumUsage(readings, indices \ {i})

RECURSIVE SumStates(_, _)
SumStates(st, starts) ==
    IF starts = {} THEN 0
    ELSE LET k == CHOOSE j \in starts : TRUE
         IN  st[k].state + SumStates(st, starts \ {k})

LatestStart(st) == CHOOSE k \in DOMAIN st : \A j \in DOMAIN st : j <= k
LatestSum(st) == IF DOMAIN st = {} THEN 0 ELSE st[LatestStart(st)].sum

\* a step of ImportStatistics
ImportStep == data' = data

\* C1: no hour is counted twice: the sum of the latest stored statistic is
\* the sum of the states of all stored statistics, each hour once, after
\* every import, also after an import that restarted from a stored sum of 0.
C1_NoDoubleCounting ==
    DOMAIN store # {} => LatestSum(store) = SumStates(store, DOMAIN store)

\* an import restarted from a stored sum of 0, and the latest import
\* continued from a non-zero stored sum and added newer hours to the store
C1_Witness ==
    /\ restarted
    /\ store_called
    /\ Len(statistics) < Cardinality(DOMAIN store)
    /\ \E k \in DOMAIN store : k < statistics[1].start /\ store[k].sum # 0

\* C2: the statistics handed to the store are in strictly ascending order of
\* start; the first sum is the sum of the last statistic stored before the
\* import (0 when none) plus its own state, every later sum is the sum
\* before it plus its own state.
C2_SumContinuation ==
    [][ImportStep =>
        /\ \A i \in 1 .. (Len(statistics') - 1) :
              statistics'[i].start < statistics'[i + 1].start
        /\ Len(statistics') > 0 =>
              statistics'[1].sum = LatestSum(store) + statistics'[1].state
        /\ \A i \in 2 .. Len(statistics') :
              statistics'[i].sum = statistics'[i - 1].sum + statistics'[i].state]_vars

\* the latest import continued from a non-zero stored sum with two statistics
C2_Witness ==
    /\ store_called
    /\ Len(statistics) >= 2
    /\ \E k \in DOMAIN store : k < statistics[1].start /\ store[k].sum # 0
    /\ statistics[1].state # 0
    /\ statistics[2].state # 0

\* C3 as stated: one bucket per clock hour, the bucket of clock hour H holds
\* the usage of exactly the readings whose timestamp truncated to the hour
\* is H.
C3_BucketPerClockHour ==
    imported_len > 0 =>
        LET rs == ImportedReadings
        IN  \A i \in Parseable(rs) :
                LET H == HourOf(rs[i].date)
                IN  /\ Localize(H) \in DOMAIN hourly_readings
                    /\ hourly_readings[Localize(H)] =
                          SumUsage(rs, {j \in Parseable(rs) : HourOf(rs[j].date) = H})

\* C3 amended: one bucket per hour of the time line: the bucket of H holds
\* the usage of exactly the readings whose timestamp, truncated to the hour
\* and localized, is H; there is no other bucket; readings with an empty or
\* unparseable date are in no bucket and are the parse errors.
C3_BucketPerLocalizedHour ==
    imported_len > 0 =>
        LET rs == ImportedReadings
        IN  /\ DOMAIN hourly_readings = {ReadingTime(rs[i]) : i \in Parseable(rs)}
            /\ \A H \in DOMAIN hourly_readings :
                  hourly_readings[H] =
                        SumUsage(rs, {j \in Parseable(rs) : ReadingTime(rs[j]) = H})
            /\ parse_errors = Len(rs) - Cardinality(Parseable(rs))

\* the import bucketed two readings of one hour after a reading with a bad
\* date, and counted the parse error
C3_Witness ==
    /\ imported_len = Len(data)
    /\ parse_errors > 0
    /\ \E i, j, k \in 1 .. imported_len :
          /\ i < j /\ j < k
          /\ i \notin Parseable(data)
          /\ {j, k} \subseteq Parseable(data)
          /\ data[j].date # data[k].date
          /\ ReadingTime(data[j]) = ReadingTime(data[k])
          /\ data[j].usage # 0 /\ data[k].usage # 0
          /\ hourly_readings[ReadingTime(data[j])] = data[j].usage + data[k].usage

\* C6 as stated: after every import the latest stored sum is the total usage
\* of the parseable readings of the imported data, and every stored hour's
\* state is the usage of all readings of that hour.
C6_NoReadingLost ==
    imported_len > 0 =>
        LET rs == ImportedReadings
        IN  /\ LatestSum(store) = SumUsage(rs, Parseable(rs))
            /\ \A H \in DOMAIN store :
                  store[H].state =
                        SumUsage(rs, {j \in Parseable(rs) : ReadingTime(rs[j]) = H})

\* C7: an import that finds a last statistic with a non-zero sum and start T
\* hands the store no statistic at or before T and changes no stored record;
\* when every bucket is at or before T it does not call the store.
C7_StoredDataSkipped ==
    [][(ImportStep /\ DOMAIN store # {} /\ LatestSum(store) # 0) =>
        LET T == LatestStart(store)
        IN  /\ \A i \in 1 .. Len(statistics') : statistics'[i].start > T
            /\ \A k \in DOMAIN store : k \in DOMAIN store' /\ store'[k] = store[k]
            /\ (\A H \in DOMAIN hourly_readings' : H <= T) =>
                  (~store_called' /\ store' = store)]_vars

\* the latest import skipped a stored hour with usage and handed a newer one
C7_Witness ==
    /\ store_called
    /\ imported_len = Len(data)
    /\ Cardinality(DOMAIN hourly_readings) > Len(statistics)
    /\ \E k \in DOMAIN hourly_readings :
          k < statistics[1].start /\ k \in DOMAIN store /\ store[k].sum # 0

\* ------------------------------------------------------------- claims: fetch
FormValues == {"action", "state", "client_info", "code"}

\* C4: the requests of a run are 1, 2, ..., 8 in this order, each at most
\* once; a request is issued only after the response to the one before it
\* was received and the values it needs were extracted; a fresh result is
\* returned only after response 8 arrived with a body that begins with MPRN.
C4_FixedExchange ==
    /\ Len(issued) <= 8
    /\ \A i \in 1 .. Len(issued) : issued[i] = i
    /\ \A k \in 2 .. Len(issued) : (k - 1) \in received
    /\ Len(issued) >= 2 => {"csrf", "transId"} \subseteq extracted
    /\ Len(issued) >= 4 => FormValues \subseteq extracted
    /\ Len(issued) >= 8 => "token" \in extracted
    /\ fetch_result = "returned" =>
          \/ debug_use_cache /\ issued = <<>>
          \/ /\ Len(issued) = 8
             /\ received = 1 .. 8
             /\ payload_head = "MPRN"

\* a fresh fetch returned readings after all eight requests
C4_Witness ==
    /\ fetch_result = "returned"
    /\ Len(issued) = 8
    /\ Len(data) > 0

\* C8: when response 3 is no login page the run raises after three
\* requests, returns nothing and leaves the cache file as it was; when the
\* body of response 8 does not begin with MPRN the run raises, returns
\* nothing and leaves the cache file as it was.
C8_LoginGate ==
    /\ login_page = "bad" =>
          /\ fetch_result = "raised"
          /\ issued = <<1, 2, 3>>
          /\ cache_file = cache_before
    /\ payload_head = "other" =>
          /\ fetch_result = "raised"
          /\ cache_file = cache_before

\* a run that had cached readings before was stopped at the login gate
C8_Witness ==
    /\ login_page = "bad"
    /\ ~debug_use_cache
    /\ cache_file.kind = "valid"
    /\ Len(cache_file.readings) > 0
    /\ DOMAIN store # {}

\* C9: the import is called only with fetched readings; an update whose
\* fetch raised fails without calling the import; an update whose fetch
\* returned returns, also when the import raised; with no readings the
\* import is not called.
C9_FailureIsolation ==
    /\ import_invoked => (fetch_result = "returned" /\ Len(data) > 0)
    /\ import_raised => import_invoked
    /\ (pc = "idle" /\ fetch_result # "none") => update_result # "none"
    /\ update_result # "none" =>
          /\ fetch_result = "raised" =>
                (update_result = "failed" /\ ~import_invoked)
          /\ fetch_result = "returned" => update_result = "returned"
          /\ (fetch_result = "returned" /\ Len(data) = 0) => ~import_invoked
          /\ (fetch_result = "returned" /\ Len(data) > 0) => import_invoked

\* an update returned the freshly fetched data although the import raised
C9_Witness ==
    /\ import_raised
    /\ update_result = "returned"
    /\ Len(issued) = 8
    /\ Len(data) > 0

\* ------------------------------------------------------------- claims: config
\* C5: there is at most one entry per MPRN; a call without input shows the
\* form and creates nothing; a submission of a configured MPRN is aborted
\* and creates nothing; a submission of a new MPRN creates exactly one
\* entry, whose data is the submitted input.
C5_ConfigUniqueness ==
    [][/\ \A i, j \in 1 .. Len(entries') :
             entries'[i].data.mprn = entries'[j].data.mprn => i = j
       /\ user_input' = <<>> =>
             (flow_result' = "form" /\ entries' = entries)
       /\ user_input' # <<>> =>
             IF \E i \in 1 .. Len(entries) :
                    entries[i].data.mprn = user_input'[1].mprn
               THEN flow_result' = "abort" /\ entries' = entries
               ELSE /\ flow_result' = "create_entry"
                    /\ Len(entries') = Len(entries) + 1
                    /\ SubSeq(entries', 1, Len(entries)) = entries
                    /\ entries'[Len(entries')].data = user_input'[1]]_vars

\* a submission of a configured MPRN with another email was aborted
C5_Witness ==
    /\ flow_result = "abort"
    /\ Len(entries) >= 2
    /\ user_input # <<>>
    /\ \E i \in 1 .. Len(entries) :
          /\ entries[i].data.mprn = user_input[1].mprn
          /\ entries[i].data.email # user_input[1].email

====
